---- MODULE Spec2Model ----
(***************************************************************************)
(* Helmholtz equation-of-state property package                            *)
(* (idaes/generic_models/properties/helmholtz/helmholtz.py).               *)
(*                                                                         *)
(* The module models                                                       *)
(*   - the parameter block (registry) built from its two configuration     *)
(*     options, state_vars and phase_presentation;                         *)
(*   - the construction of the state block elements (HelmholtzState-       *)
(*     BlockData.build, _state_vars, _tpx_phase_eq);                       *)
(*   - the bulk methods _StateBlock.initialize and release_state, with a   *)
(*     caller that fixes and unfixes variables and keeps the flags that    *)
(*     initialize returned;                                                *)
(*   - the pure relations of the package (the complementarity constraint,  *)
(*     _htpx), each evaluated by a specification of its own;               *)
(*   - the components and the scaling suffixes that build creates, and the *)
(*     values of its expressions at a point, as rational numbers.          *)
(*                                                                         *)
(* Units.  Variable values are integers: flow in mol/s, temperature in K,  *)
(* pressure in Pa, enthalpy in J/mol.  A vapor fraction x is held as the   *)
(* numerator x*VfDen.  In the complementarity specification pressures are  *)
(* in kPa, as in the expressions of _tpx_phase_eq.                         *)
(***************************************************************************)
EXTENDS Integers, Sequences, FiniteSets, TLC

VARIABLES
    param,   \* the parameter block (HelmholtzParameterBlockData) after build
    blk,     \* the state block: index -> state block data element
    held,    \* flags dictionaries returned by initialize, kept by the caller
    ncalls,  \* number of calls of initialize so far
    last,    \* the operation that produced the current state, and its inputs
    call,    \* pure evaluations: the arguments of the evaluation
    ret      \* pure evaluations: its result

vars == <<param, blk, held, ncalls, last, call, ret>>

----------------------------------------------------------------------------
(* Bounds *)

NInst == 2        \* number of elements of the state block
MaxCalls == 2     \* calls of initialize in one run
VfDen == 10       \* vapor fractions are multiples of 1/VfDen
MaxP == 4         \* complementarity: pressures 0..MaxP [kPa]

Idx == 1..NInst
ForeignKey == NInst + 1   \* an index that is not in the state block

----------------------------------------------------------------------------
(* Enumerations: class StateVars, class PhaseType *)

StateVars == {"PH", "TPX"}
PhaseType == {"MIX", "LG", "L", "G"}

Names == {"flow_mol", "enth_mol", "temperature", "pressure", "vapor_frac"}

----------------------------------------------------------------------------
(* HelmholtzParameterBlockData *)

\* _set_parameters: default values of the state variables
default_pressure_value == 100000
default_temperature_value == 300
default_enthalpy_value == 1000

\* Mutant: the MIX presentation has the two phases in its public list
phase_list_mix_as_two(pp) ==
    IF pp \in {"MIX", "LG"} THEN {"Vap", "Liq"}
    ELSE IF pp = "L" THEN {"Liq"}
    ELSE {"Vap"}

\* build: the public phase list for a phase presentation
phase_list(pp) ==
    IF pp = "MIX" THEN {"Mix"}
    ELSE IF pp = "LG" THEN {"Vap", "Liq"}
    ELSE IF pp = "L" THEN {"Liq"}
    ELSE {"Vap"}

private_phase_list == {"Vap", "Liq"}

\* _available(shared_lib): os.path.isfile(shared_lib)
available(isfile) == isfile

\* build: the registry for a configuration; isfile tells whether the library
\* file plib exists
ParameterBlockBuild(sv, pp, isfile) ==
    [ config |-> [state_vars |-> sv, phase_presentation |-> pp],
      available |-> available(isfile),
      private_phase_list |-> private_phase_list,
      phase_list |-> phase_list(pp),
      state_vars |-> sv,
      default_pressure_value |-> default_pressure_value,
      default_temperature_value |-> default_temperature_value,
      default_enthalpy_value |-> default_enthalpy_value,
      smoothing_pressure_over |-> [mutable |-> TRUE, num |-> 1, den |-> 10000],
      smoothing_pressure_under |-> [mutable |-> TRUE, num |-> 1, den |-> 10000] ]

----------------------------------------------------------------------------
(* HelmholtzStateBlockData: construction *)

NotBuilt == [built |-> FALSE]

\* Var(initialize=x): a variable, unfixed, with value x
NewVar(x) == [ctype |-> "Var", fixed |-> FALSE, value |-> x, expr |-> "none"]

\* Expression(expr=x) with a constant body
ConstExpr(x) == [ctype |-> "Expression", fixed |-> FALSE, value |-> x, expr |-> "const"]

\* Expression whose body calls an external function f
ExternalExpr(f) == [ctype |-> "Expression", fixed |-> FALSE, value |-> 0, expr |-> f]

\* v.fix(x)
FixAt(c, x) == [c EXCEPT !.fixed = TRUE, !.value = x]

\* _state_vars: the components named by Names
state_vars_components(p) ==
    IF p.state_vars = "PH" THEN
        [ flow_mol |-> NewVar(1),
          pressure |-> NewVar(p.default_pressure_value),
          enth_mol |-> NewVar(p.default_enthalpy_value),
          temperature |-> ExternalExpr("func_tau"),
          vapor_frac |->
              IF p.config.phase_presentation \in {"MIX", "LG"} THEN ExternalExpr("func_vf")
              ELSE IF p.config.phase_presentation = "L" THEN ConstExpr(0)
              ELSE ConstExpr(VfDen) ]
    ELSE
        [ flow_mol |-> NewVar(1),
          temperature |-> NewVar(p.default_temperature_value),
          pressure |-> NewVar(p.default_pressure_value),
          vapor_frac |-> NewVar(0),
          enth_mol |-> ExternalExpr("phase_frac*enth_mol_phase") ]

\* Mutant: the value is set and the variable is left unfixed
tpx_vapor_frac_not_fixed(p, vf) ==
    IF Cardinality(p.phase_list) = 1 THEN
        IF "Vap" \in p.phase_list THEN [vf EXCEPT !.value = VfDen] ELSE [vf EXCEPT !.value = 0]
    ELSE vf

\* Mutant: the two values are exchanged
tpx_vapor_frac_swapped(p, vf) ==
    IF Cardinality(p.phase_list) = 1 THEN
        IF "Vap" \in p.phase_list THEN FixAt(vf, 0) ELSE FixAt(vf, VfDen)
    ELSE vf

\* _tpx_phase_eq, "If there is only one phase fix the vapor fraction": vapor_frac
tpx_vapor_frac(p, vf) ==
    IF Cardinality(p.phase_list) = 1 THEN
        IF "Vap" \in p.phase_list THEN FixAt(vf, VfDen) ELSE FixAt(vf, 0)
    ELSE vf

\* _tpx_phase_eq: eq_complementarity is created (active) or not created
tpx_eq_complementarity(p, defined_state) ==
    IF Cardinality(p.phase_list) = 1 THEN "absent"
    ELSE IF ~defined_state THEN "active"
    ELSE "absent"

\* Mutant: eq_sat is left active
StateBlockDataBuild_sat_active(p, defined_state) ==
    LET c == state_vars_components(p) IN
    IF p.state_vars = "PH" THEN
        [ built |-> TRUE, state_vars |-> p.state_vars, comp |-> c,
          eq_complementarity |-> "absent", eq_sat |-> "absent" ]
    ELSE
        [ built |-> TRUE, state_vars |-> p.state_vars,
          comp |-> [c EXCEPT !.vapor_frac = tpx_vapor_frac(p, c.vapor_frac)],
          eq_complementarity |-> tpx_eq_complementarity(p, defined_state),
          eq_sat |-> "active" ]

\* build: one state block data element
StateBlockDataBuild(p, defined_state) ==
    LET c == state_vars_components(p) IN
    IF p.state_vars = "PH" THEN
        [ built |-> TRUE, state_vars |-> p.state_vars, comp |-> c,
          eq_complementarity |-> "absent", eq_sat |-> "absent" ]
    ELSE
        [ built |-> TRUE, state_vars |-> p.state_vars,
          comp |-> [c EXCEPT !.vapor_frac = tpx_vapor_frac(p, c.vapor_frac)],
          eq_complementarity |-> tpx_eq_complementarity(p, defined_state),
          eq_sat |-> "inactive" ]

----------------------------------------------------------------------------
(* _StateBlock.initialize *)

\* The variables initialize holds for an element, in the order of its flags
HoldNames(sv, pp) ==
    IF sv = "PH" THEN <<"flow_mol", "enth_mol", "pressure">>
    ELSE IF pp \in {"MIX", "LG"} THEN <<"flow_mol", "temperature", "pressure", "vapor_frac">>
    ELSE <<"flow_mol", "temperature", "pressure">>

ElemNames(b) == HoldNames(b.state_vars, param.config.phase_presentation)

SeqRange(s) == {s[k] : k \in 1..Len(s)}

\* Mutant: the second entry is taken from the third variable
HoldFlags_copied(b) ==
    [k \in 1..Len(ElemNames(b)) |-> b.comp[ElemNames(b)[IF k = 2 THEN 3 ELSE k]].fixed]

\* flags[i] = (v.flow_mol.fixed, ...)
HoldFlags(b) == [k \in 1..Len(ElemNames(b)) |-> b.comp[ElemNames(b)[k]].fixed]

\* Mutant: the assignment is not guarded by "if not v.x.fixed"
AssignOne_unguarded(c, n, state_args) ==
    IF n \in DOMAIN state_args.d THEN [c EXCEPT !.value = state_args.d[n]] ELSE c

\* Mutant: state_args.get(x) in place of the try, so a missing key assigns None
AssignOne_get(c, n, state_args) ==
    IF ~c.fixed
    THEN [c EXCEPT !.value = IF n \in DOMAIN state_args.d THEN state_args.d[n] ELSE 0]
    ELSE c

\* "if not v.x.fixed: try: v.x.value = state_args[x] except KeyError: pass"
\* a state_args is [given |-> FALSE] for None, or [given |-> TRUE, d |-> the dict]
AssignOne(c, n, state_args) ==
    IF ~c.fixed /\ n \in DOMAIN state_args.d THEN [c EXCEPT !.value = state_args.d[n]] ELSE c

\* "if state_args is not None:" the assignments to the held variables
AssignArgs(b, state_args) ==
    IF ~state_args.given THEN b
    ELSE [b EXCEPT !.comp = [n \in DOMAIN b.comp |->
            IF n \in SeqRange(ElemNames(b)) THEN AssignOne(b.comp[n], n, state_args)
            ELSE b.comp[n]]]

\* Mutant: pressure is not fixed
HoldFix_no_pressure(b, hold_state) ==
    IF hold_state THEN
        [b EXCEPT !.comp = [n \in DOMAIN b.comp |->
            IF n \in SeqRange(ElemNames(b)) \ {"pressure"}
            THEN [b.comp[n] EXCEPT !.fixed = TRUE]
            ELSE b.comp[n]]]
    ELSE b

\* "if hold_state: v.x.fix() ..."
HoldFix(b, hold_state) ==
    IF hold_state THEN
        [b EXCEPT !.comp = [n \in DOMAIN b.comp |->
            IF n \in SeqRange(ElemNames(b)) THEN [b.comp[n] EXCEPT !.fixed = TRUE]
            ELSE b.comp[n]]]
    ELSE b

\* The body of the loop "for i, v in self.items()"
InitializeElem(b, state_args, hold_state) == HoldFix(AssignArgs(b, state_args), hold_state)

\* The keys of a state block with the index set S, in the order of self.items()
RECURSIVE KeysOf(_)
KeysOf(S) ==
    IF S = {} THEN <<>>
    ELSE LET i == CHOOSE m \in S : \A n \in S : m <= n
         IN <<i>> \o KeysOf(S \ {i})

\* The flags dictionary, in the order of insertion
InitializeFlags(S, bk) ==
    [k \in 1..Cardinality(S) |-> [key |-> KeysOf(S)[k], f |-> HoldFlags(bk[KeysOf(S)[k]])]]

\* Mutant: the loop runs over every element of the flowsheet
InitializeItems_every(S, bk, state_args, hold_state) ==
    [i \in Idx |-> InitializeElem(bk[i], state_args, hold_state)]

\* "for i, v in self.items()": the elements of the state block, S, and no other
InitializeItems(S, bk, state_args, hold_state) ==
    [i \in Idx |-> IF i \in S THEN InitializeElem(bk[i], state_args, hold_state) ELSE bk[i]]

----------------------------------------------------------------------------
(* _StateBlock.release_state *)

\* Mutant: both branches unfix
set_fixed_never(c, f) == [c EXCEPT !.fixed = FALSE]

\* Mutant: both branches fix
set_fixed_always(c, f) == [c EXCEPT !.fixed = TRUE]

\* _set_fixed(v, f)
set_fixed(c, f) == IF f THEN [c EXCEPT !.fixed = TRUE] ELSE [c EXCEPT !.fixed = FALSE]

\* The variables release_state sets for an element: f[0], f[1], f[2] and, in TPX
\* with the MIX or LG presentation, f[3]
ReleaseNames(sv, pp) ==
    IF sv = "PH" THEN <<"flow_mol", "enth_mol", "pressure">>
    ELSE <<"flow_mol", "temperature", "pressure">>
         \o (IF pp \in {"MIX", "LG"} THEN <<"vapor_frac">> ELSE <<>>)

\* Mutant: a short tuple is tolerated (the IndexError is swallowed)
ReleaseElem_tolerant(b, f) ==
    LET names == ReleaseNames(b.state_vars, param.config.phase_presentation)
        done == IF Len(f) < Len(names) THEN Len(f) ELSE Len(names)
    IN [ b |-> [b EXCEPT !.comp = [n \in DOMAIN b.comp |->
                    IF \E k \in 1..done : names[k] = n
                    THEN set_fixed(b.comp[n], f[CHOOSE k \in 1..done : names[k] = n])
                    ELSE b.comp[n]]],
         err |-> "none" ]

\* The body of the loop for one element: the statements run in order, and f[k]
\* raises IndexError when the tuple has no entry k, after the earlier ones ran
ReleaseElem(b, f) ==
    LET names == ReleaseNames(b.state_vars, param.config.phase_presentation)
        done == IF Len(f) < Len(names) THEN Len(f) ELSE Len(names)
    IN [ b |-> [b EXCEPT !.comp = [n \in DOMAIN b.comp |->
                    IF \E k \in 1..done : names[k] = n
                    THEN set_fixed(b.comp[n], f[CHOOSE k \in 1..done : names[k] = n])
                    ELSE b.comp[n]]],
         err |-> IF Len(f) < Len(names) THEN "IndexError" ELSE "none" ]

\* "for i, f in flags.items()": items k.. of the dictionary, in its order;
\* self[i] raises KeyError for an index that is not in the block
RECURSIVE ReleaseItems(_, _, _)
ReleaseItems(bk, items, k) ==
    IF k > Len(items) THEN [blk |-> bk, err |-> "none"]
    ELSE IF items[k].key \notin DOMAIN bk THEN [blk |-> bk, err |-> "KeyError"]
    ELSE LET r == ReleaseElem(bk[items[k].key], items[k].f) IN
         IF r.err # "none" THEN [blk |-> [bk EXCEPT ![items[k].key] = r.b], err |-> r.err]
         ELSE ReleaseItems([bk EXCEPT ![items[k].key] = r.b], items, k + 1)

----------------------------------------------------------------------------
(* The caller *)

\* Values a caller passes in state_args
ArgValue(n) ==
    CASE n = "flow_mol" -> 2
      [] n = "enth_mol" -> 2000
      [] n = "temperature" -> 350
      [] n = "pressure" -> 200000
      [] n = "vapor_frac" -> 1

\* The key sets of the state_args dictionaries a caller passes
ArgKeySets == {Names, Names \ {"pressure"}}

StateArgs ==
    {[given |-> FALSE, d |-> <<>>]}
    \cup {[given |-> TRUE, d |-> [n \in S |-> ArgValue(n)]] : S \in ArgKeySets}

\* The fixed status of every component
FixedOf(bk) == [i \in Idx |-> [n \in Names |-> bk[i].comp[n].fixed]]

\* Flags dictionaries that do not have the shape initialize returned
DropLast(s) == SubSeq(s, 1, Len(s) - 1)
Without(items, k) == SubSeq(items, 1, k - 1) \o SubSeq(items, k + 1, Len(items))

Malformed(items) ==
    {[items EXCEPT ![k].f = DropLast(@)] : k \in 1..Len(items)}
    \cup {[items EXCEPT ![k].f = Append(@, TRUE)] : k \in 1..Len(items)}
    \cup {Without(items, k) : k \in 1..Len(items)}
    \cup {Append(items, [key |-> ForeignKey, f |-> items[1].f])}

NoOp == [op |-> "none", err |-> "none"]
NoCall == [fn |-> "none"]
NoRet == [done |-> FALSE]

----------------------------------------------------------------------------
(* Specification of the state block *)

Init ==
    /\ param \in {ParameterBlockBuild(sv, pp, TRUE) : sv \in StateVars, pp \in PhaseType}
    /\ blk = [i \in Idx |-> NotBuilt]
    /\ held = <<>>
    /\ ncalls = 0
    /\ last = NoOp
    /\ call = NoCall
    /\ ret = NoRet

Running == last.err = "none"
Built == \A i \in Idx : blk[i].built

\* The caller sets the degrees of freedom of the flowsheet before it initializes
Setup == last.op \in {"build", "caller"}

\* Mutant: build overwrites the default pressure of the parameter block
Build_writes_parameters(defined_state) ==
    /\ Running
    /\ ~Built
    /\ blk' = [i \in Idx |-> StateBlockDataBuild(param, defined_state)]
    /\ last' = [op |-> "build", err |-> "none", defined_state |-> defined_state]
    /\ param' = [param EXCEPT !.default_pressure_value = 101325]
    /\ UNCHANGED <<held, ncalls, call, ret>>

\* Construction of the state block with config.defined_state = defined_state:
\* build of every element
Build(defined_state) ==
    /\ Running
    /\ ~Built
    /\ blk' = [i \in Idx |-> StateBlockDataBuild(param, defined_state)]
    /\ last' = [op |-> "build", err |-> "none", defined_state |-> defined_state]
    /\ UNCHANGED <<param, held, ncalls, call, ret>>

\* The caller fixes a variable: v.fix()
Fix(i, n) ==
    /\ Running /\ Built /\ Setup
    /\ blk[i].comp[n].ctype = "Var"
    /\ ~blk[i].comp[n].fixed
    /\ blk' = [blk EXCEPT ![i].comp[n].fixed = TRUE]
    /\ last' = [op |-> "caller", err |-> "none"]
    /\ UNCHANGED <<param, held, ncalls, call, ret>>

\* The caller unfixes a variable: v.unfix()
Unfix(i, n) ==
    /\ Running /\ Built /\ Setup
    /\ blk[i].comp[n].ctype = "Var"
    /\ blk[i].comp[n].fixed
    /\ blk' = [blk EXCEPT ![i].comp[n].fixed = FALSE]
    /\ last' = [op |-> "caller", err |-> "none"]
    /\ UNCHANGED <<param, held, ncalls, call, ret>>

\* The caller activates the constraint that forces P = Psat: eq_sat.activate()
ActivateEqSat(i) ==
    /\ Running /\ Built
    /\ blk[i].eq_sat = "inactive"
    /\ blk' = [blk EXCEPT ![i].eq_sat = "active"]
    /\ last' = [op |-> "activate", err |-> "none", i |-> i, before |-> blk]
    /\ UNCHANGED <<param, held, ncalls, call, ret>>

\* flags = self.initialize(state_args=..., hold_state=...) of the state block
\* self with the index set S
InitializeOn(S, state_args, hold_state) ==
    /\ Running /\ Built /\ ncalls < MaxCalls
    /\ ncalls' = ncalls + 1
    /\ blk' = InitializeItems(S, blk, state_args, hold_state)
    /\ held' = Append(held, [flags |-> InitializeFlags(S, blk), pre |-> FixedOf(blk),
                             hold_state |-> hold_state])
    /\ last' = [op |-> "initialize", err |-> "none", state_args |-> state_args,
                hold_state |-> hold_state, flags |-> InitializeFlags(S, blk),
                before |-> blk, self |-> S]
    /\ UNCHANGED <<param, call, ret>>

\* flags = blk.initialize(state_args=..., hold_state=...) of the state block
\* that holds every element
Initialize(state_args, hold_state) == InitializeOn(Idx, state_args, hold_state)

\* blk.release_state(flags) for the hold k; nested tells that the step before
\* released, with the flags it returned, the hold made last with
\* hold_state=True right after it was made, and that k is the hold made before
\* that one
ReleaseWith(k, flags) ==
    LET r == ReleaseItems(blk, flags, 1) IN
    /\ blk' = r.blk
    /\ held' = Without(held, k)
    /\ last' = [op |-> "release_state", err |-> r.err, flags |-> flags,
                returned |-> held[k].flags, pre |-> held[k].pre,
                hold_state |-> held[k].hold_state,
                direct |-> (last.op = "initialize" /\ k = Len(held)),
                nested |-> (/\ last.op = "release_state" /\ last.direct
                            /\ last.hold_state /\ last.err = "none"
                            /\ last.flags = last.returned
                            /\ k = Len(held)),
                before |-> blk]
    /\ UNCHANGED <<param, ncalls, call, ret>>

Release(k) ==
    /\ Running /\ Built /\ k \in 1..Len(held)
    /\ ReleaseWith(k, held[k].flags)

\* blk.release_state(flags) with flags of another shape
ReleaseMalformed(k) ==
    /\ Running /\ Built /\ k = Len(held) /\ k > 0
    /\ last.op = "initialize" /\ ncalls = 1
    /\ \E flags \in Malformed(held[k].flags) : ReleaseWith(k, flags)

Next ==
    \/ \E d \in BOOLEAN : Build(d)
    \/ \E i \in Idx, n \in Names : Fix(i, n)
    \/ \E i \in Idx, n \in Names : Unfix(i, n)
    \/ \E a \in StateArgs, h \in BOOLEAN : Initialize(a, h)
    \/ \E k \in 1..MaxCalls : Release(k)
    \/ \E k \in 1..MaxCalls : ReleaseMalformed(k)

Spec == Init /\ [][Next]_vars

----------------------------------------------------------------------------
(* Claims about the state block *)

Pres == param.config.phase_presentation
Mode == param.state_vars
AfterBuild == last.op = "build"
AfterInitialize == last.op = "initialize"
AfterRelease == last.op = "release_state"

\* C1: initialize with hold_state=True followed at once by release_state with
\* the flags it returned raises nothing and leaves every variable of every
\* element with the fixed status it had before initialize was called.
C1_HoldReleaseRestores ==
    (AfterRelease /\ last.direct /\ last.hold_state /\ last.flags = last.returned)
        => /\ last.err = "none"
           /\ \A i \in Idx, n \in Names : blk[i].comp[n].fixed = last.pre[i][n]

\* C1 witness: such a release, where before the hold one variable was fixed and
\* another was not
C1_Witness ==
    /\ AfterRelease /\ last.direct /\ last.hold_state /\ last.flags = last.returned
    /\ \E i, j \in Idx, n, m \in Names :
          /\ blk[i].comp[n].ctype = "Var" /\ blk[j].comp[m].ctype = "Var"
          /\ last.pre[i][n] /\ ~last.pre[j][m]
          /\ last.before[j].comp[m].fixed /\ ~blk[j].comp[m].fixed

\* C3 (as claimed): in TPX mode with defined_state false, build leaves vapor_frac
\* unfixed and creates an active eq_complementarity under the MIX and the LG
\* presentation; vapor_frac is fixed at build only under L or G.
C3_TwoPhaseComplementarity ==
    (AfterBuild /\ Mode = "TPX" /\ ~last.defined_state)
        => \A i \in Idx :
              /\ Pres \in {"MIX", "LG"} =>
                    (~blk[i].comp.vapor_frac.fixed /\ blk[i].eq_complementarity = "active")
              /\ blk[i].comp.vapor_frac.fixed => Pres \in {"L", "G"}

\* C4: under the L and the G presentation, in both modes, the built element has
\* vapor_frac equal to 0 (L) or 1 (G), as a fixed variable in TPX mode and as a
\* constant expression in PH mode, and it has no eq_complementarity.
C4_SinglePhaseVaporFrac ==
    (AfterBuild /\ Pres \in {"L", "G"})
        => \A i \in Idx :
              /\ blk[i].comp.vapor_frac.value = (IF Pres = "L" THEN 0 ELSE VfDen)
              /\ Mode = "TPX" =>
                    (blk[i].comp.vapor_frac.ctype = "Var" /\ blk[i].comp.vapor_frac.fixed)
              /\ Mode = "PH" =>
                    (blk[i].comp.vapor_frac.ctype = "Expression"
                     /\ blk[i].comp.vapor_frac.expr = "const")
              /\ blk[i].eq_complementarity = "absent"

\* C4 witness: a block just built in TPX mode under the G presentation
C4_Witness ==
    /\ AfterBuild /\ Pres = "G" /\ Mode = "TPX"
    /\ \A i \in Idx : blk[i].comp.vapor_frac.fixed /\ blk[i].comp.vapor_frac.value = VfDen

\* The shape of a flags dictionary against the one initialize returned
ShortTuple(flags, returned) ==
    \E k \in 1..Len(flags) :
        flags[k].key \in Idx /\ Len(flags[k].f) < Len(returned[flags[k].key].f)
LongTuple(flags, returned) ==
    \E k \in 1..Len(flags) :
        flags[k].key \in Idx /\ Len(flags[k].f) > Len(returned[flags[k].key].f)
UnknownKey(flags) == \E k \in 1..Len(flags) : flags[k].key \notin Idx
MissingKey(flags) == \E i \in Idx : \A k \in 1..Len(flags) : flags[k].key # i

C6_FixedKeepValue ==
    AfterInitialize
        => \A i \in Idx, n \in Names :
              last.before[i].comp[n].fixed
                  => blk[i].comp[n].value = last.before[i].comp[n].value

\* C6 witness: an initialize whose state_args names a fixed variable, and that
\* assigned another, unfixed, variable
C6_Witness ==
    /\ AfterInitialize /\ last.state_args.given
    /\ \E i, j \in Idx, n, m \in DOMAIN last.state_args.d :
          /\ last.before[i].comp[n].ctype = "Var" /\ last.before[i].comp[n].fixed
          /\ last.before[i].comp[n].value # last.state_args.d[n]
          /\ ~last.before[j].comp[m].fixed
          /\ blk[j].comp[m].value # last.before[j].comp[m].value

\* The variables of the state-variable set of a mode and presentation
ClaimedNames(sv, pp) ==
    IF sv = "PH" THEN {"flow_mol", "enth_mol", "pressure"}
    ELSE IF pp \in {"MIX", "LG"} THEN {"flow_mol", "temperature", "pressure", "vapor_frac"}
    ELSE {"flow_mol", "temperature", "pressure"}

LacksEntry(a) == ~a.given \/ \E n \in ClaimedNames(Mode, Pres) : n \notin DOMAIN a.d

\* C7: when state_args is None or lacks the entry of a variable, initialize
\* raises nothing, leaves that variable's value as it was, and still assigns
\* every unfixed variable that has an entry, fixes every variable when
\* hold_state is set and returns flags for every element.
C7_MissingOverrideSkipped ==
    (AfterInitialize /\ LacksEntry(last.state_args))
        => /\ last.err = "none"
           /\ \A i \in Idx :
                 /\ last.flags[i].key = i
                 /\ \A n \in ClaimedNames(Mode, Pres) :
                       /\ (~last.state_args.given \/ n \notin DOMAIN last.state_args.d)
                             => blk[i].comp[n].value = last.before[i].comp[n].value
                       /\ (last.state_args.given /\ n \in DOMAIN last.state_args.d
                             /\ ~last.before[i].comp[n].fixed)
                             => blk[i].comp[n].value = last.state_args.d[n]
                       /\ last.hold_state => blk[i].comp[n].fixed

\* C7 witness: state_args has no entry for pressure, pressure is unfixed in
\* both elements, and the flow of the second element was assigned
C7_Witness ==
    /\ AfterInitialize /\ last.state_args.given
    /\ "pressure" \notin DOMAIN last.state_args.d
    /\ \A i \in Idx : ~last.before[i].comp.pressure.fixed
    /\ ~last.before[NInst].comp.flow_mol.fixed
    /\ blk[NInst].comp.flow_mol.value = last.state_args.d.flow_mol
    /\ blk[NInst].comp.flow_mol.value # last.before[NInst].comp.flow_mol.value

\* C8 (as claimed): after initialize with hold_state=True every primary
\* variable is fixed: flow, enthalpy, pressure in PH mode; flow, temperature,
\* pressure and vapor_frac in TPX mode, for every presentation.
C8_AllPrimaryFixed ==
    (AfterInitialize /\ last.hold_state)
        => \A i \in Idx :
              \A n \in (IF Mode = "PH" THEN {"flow_mol", "enth_mol", "pressure"}
                        ELSE {"flow_mol", "temperature", "pressure", "vapor_frac"}) :
                  blk[i].comp[n].fixed

\* C8 (amended): after initialize with hold_state=True the variables of the
\* state-variable set are fixed: flow, enthalpy, pressure in PH mode; flow,
\* temperature, pressure, vapor_frac in TPX mode under MIX or LG; flow,
\* temperature, pressure in TPX mode under L or G, where vapor_frac keeps the
\* status it had before the call.
C8_HeldFixed ==
    (AfterInitialize /\ last.hold_state)
        => \A i \in Idx :
              /\ \A n \in ClaimedNames(Mode, Pres) : blk[i].comp[n].fixed
              /\ (Mode = "TPX" /\ Pres \in {"L", "G"})
                    => blk[i].comp.vapor_frac.fixed = last.before[i].comp.vapor_frac.fixed

\* C8 witness: a hold in TPX mode under LG that fixed four variables that were
\* all unfixed
C8_Witness ==
    /\ AfterInitialize /\ last.hold_state /\ Mode = "TPX" /\ Pres = "LG"
    /\ \E i \in Idx :
          \A n \in ClaimedNames(Mode, Pres) :
              ~last.before[i].comp[n].fixed /\ blk[i].comp[n].fixed

\* The order of the entries of a flags tuple
ClaimedOrder(sv, pp) ==
    IF sv = "PH" THEN <<"flow_mol", "enth_mol", "pressure">>
    ELSE IF pp \in {"MIX", "LG"} THEN <<"flow_mol", "temperature", "pressure", "vapor_frac">>
    ELSE <<"flow_mol", "temperature", "pressure">>

\* C9: initialize returns one tuple per element, holding the fixed status each
\* variable had before the call: 3 entries in PH mode, 4 in TPX mode under MIX
\* or LG, 3 in TPX mode under L or G.
C9_FlagsArePriorStatus ==
    AfterInitialize
        => /\ Len(last.flags) = NInst
           /\ \A i \in Idx :
                 /\ last.flags[i].key = i
                 /\ Len(last.flags[i].f) =
                        (IF Mode = "TPX" /\ Pres \in {"MIX", "LG"} THEN 4 ELSE 3)
                 /\ \A k \in 1..Len(last.flags[i].f) :
                        last.flags[i].f[k]
                            = last.before[i].comp[ClaimedOrder(Mode, Pres)[k]].fixed

\* C9 witness: flags of four entries, not all equal, returned by a hold that
\* fixed the variables
C9_Witness ==
    /\ AfterInitialize /\ last.hold_state
    /\ \E i \in Idx :
          /\ Len(last.flags[i].f) = 4
          /\ last.flags[i].f[2] /\ ~last.flags[i].f[3]

----------------------------------------------------------------------------
(* _tpx_phase_eq: the complementarity constraint *)

\* Integer square root
RECURSIVE IsqrtFrom(_, _)
IsqrtFrom(n, r) == IF (r + 1) * (r + 1) > n THEN r ELSE IsqrtFrom(n, r + 1)
Isqrt(n) == IsqrtFrom(n, 0)

\* idaes.core.util.math.smooth_max(a, b, eps) = 0.5*(a + b + sqrt((a - b)^2 + eps^2));
\* for eps = 0, the limit of the smoothing, this is max(a, b) exactly; for
\* eps > 0 the square root and the half are rounded down to an integer
smooth_max(a, b, eps) == (a + b + Isqrt((a - b) * (a - b) + eps * eps)) \div 2

\* Mutant: the distance is not clipped at 0
P_under_sat_unclipped(P, Psat, eps) == Psat - P

\* self.P_under_sat = smooth_max(0, Psat - P, eps_pu)
P_under_sat(P, Psat, eps) == smooth_max(0, Psat - P, eps)

\* self.P_over_sat = smooth_max(0, P - Psat, eps_po)
P_over_sat(P, Psat, eps) == smooth_max(0, P - Psat, eps)

\* Mutant: the two shifts are exchanged
rule_dens_mass_pressure_exchanged(p, P, P_under, P_over) ==
    IF p = "Liq" THEN P - P_over ELSE P + P_under

\* rule_dens_mass of _tpx_phase_eq: the pressure at which the density of phase
\* p is evaluated, func_delta_liq(P + P_under_sat, tau) for "Liq" and
\* func_delta_vap(P - P_over_sat, tau) for "Vap"
rule_dens_mass_pressure(p, P, P_under, P_over) ==
    IF p = "Liq" THEN P + P_under ELSE P - P_over

\* Mutant: the two distances are exchanged
eq_complementarity_body_exchanged(vf, P_over, P_under) ==
    vf * P_under - (VfDen - vf) * P_over

\* The body of eq_complementarity, vf*P_over_sat - (1 - vf)*P_under_sat, times
\* VfDen (vf is the numerator of the vapor fraction)
eq_complementarity_body(vf, P_over, P_under) ==
    vf * P_over - (VfDen - vf) * P_under

\* The smoothing parameters of the evaluations: 0, the exact limit, and
\* positive ones [kPa]
EpsValues == {0, 1, 2}

\* A point (P, Psat, vapor_frac); vapor_frac has no bounds
InitCompl ==
    /\ param = ParameterBlockBuild("TPX", "LG", TRUE)
    /\ blk = [i \in Idx |-> NotBuilt]
    /\ held = <<>>
    /\ ncalls = 0
    /\ last = NoOp
    /\ call \in [fn : {"eq_complementarity"}, P : 0..MaxP, Psat : 0..MaxP,
                 vf : (0 - 1)..(VfDen + 1), eps : EpsValues]
    /\ ret = NoRet

\* Evaluation of P_under_sat, P_over_sat and the constraint at the point
EvalComplementarity ==
    /\ call.fn = "eq_complementarity" /\ ~ret.done
    /\ LET pu == P_under_sat(call.P, call.Psat, call.eps)
           po == P_over_sat(call.P, call.Psat, call.eps)
           body == eq_complementarity_body(call.vf, po, pu)
       IN ret' = [done |-> TRUE, P_under_sat |-> pu, P_over_sat |-> po,
                  body |-> body, satisfied |-> (0 = body),
                  dens_mass_P |-> [p \in private_phase_list |->
                      rule_dens_mass_pressure(p, call.P, pu, po)]]
    /\ UNCHANGED <<param, blk, held, ncalls, last, call>>

SpecCompl == InitCompl /\ [][EvalComplementarity]_vars

ComplEvaluated == call.fn = "eq_complementarity" /\ ret.done

\* C2 (as claimed): with the exact distances, a point that satisfies the
\* constraint has vapor_frac = 0 when P < Psat and vapor_frac = 1 when P > Psat;
\* at P = Psat every vapor_frac satisfies it.
C2_BelowIsLiquid ==
    (ComplEvaluated /\ call.eps = 0)
        => /\ (ret.satisfied /\ call.P < call.Psat) => call.vf = 0
           /\ (ret.satisfied /\ call.P > call.Psat) => call.vf = VfDen
           /\ call.P = call.Psat => ret.satisfied

\* C2 (amended): with the exact distances, a point that satisfies the
\* constraint has vapor_frac = 1 when P < Psat and vapor_frac = 0 when P > Psat;
\* at P = Psat every vapor_frac satisfies it.
C2_BelowIsVapor ==
    (ComplEvaluated /\ call.eps = 0)
        => /\ ret.P_under_sat = (IF call.Psat > call.P THEN call.Psat - call.P ELSE 0)
           /\ ret.P_over_sat = (IF call.P > call.Psat THEN call.P - call.Psat ELSE 0)
           /\ (ret.satisfied /\ call.P < call.Psat) => call.vf = VfDen
           /\ (ret.satisfied /\ call.P > call.Psat) => call.vf = 0
           /\ call.P = call.Psat => ret.satisfied

\* C2 witness: a point below saturation that satisfies the constraint
C2_Witness ==
    /\ ComplEvaluated /\ call.eps = 0
    /\ call.P < call.Psat /\ ret.satisfied /\ call.vf = VfDen

----------------------------------------------------------------------------
(* _htpx *)

\* The default bounds of _htpx
Tmin == 200
Tmax == 1200
Pmin == 1
Pmax == 1000000000

\* An optional argument is [given |-> FALSE, v |-> 0] for None
NoArg == [given |-> FALSE, v |-> 0]
Arg(v) == [given |-> TRUE, v |-> v]

\* Mutant: "(not P is None) ^ (x is None)", the negation applied to the first test
htpx_not_exclusive_misparsed(P, x) == ~((P.given) # (~x.given))

\* "not (P is None) ^ (x is None)": not binds less tightly than ^
htpx_not_exclusive(P, x) == ~((~P.given) # (~x.given))

\* Mutant: the bounds are exclusive
htpx_error_strict(T, P, x) ==
    IF htpx_not_exclusive(P, x) THEN "one_of_P_and_x"
    ELSE IF ~(Tmin < T /\ T < Tmax) THEN "T"
    ELSE IF P.given /\ ~(Pmin < P.v /\ P.v < Pmax) THEN "P"
    ELSE IF x.given /\ ~(0 < x.v /\ x.v < VfDen) THEN "x"
    ELSE "none"

\* The argument checks of _htpx, in order; x is the numerator of the fraction
htpx_error(T, P, x) ==
    IF htpx_not_exclusive(P, x) THEN "one_of_P_and_x"
    ELSE IF ~(Tmin <= T /\ T <= Tmax) THEN "T"
    ELSE IF P.given /\ ~(Pmin <= P.v /\ P.v <= Pmax) THEN "P"
    ELSE IF x.given /\ ~(0 <= x.v /\ x.v <= VfDen) THEN "x"
    ELSE "none"

\* The model object of _htpx: not constructed, ConcreteModel(), and the model
\* with model.param and model.prop assigned
NoModel == [constructed |-> FALSE, attrs |-> {}]
HtpxModel == [constructed |-> TRUE, attrs |-> {"param", "prop"}]

\* A call of a kernel function at a pressure [Pa] and a temperature [K]; the
\* kernel itself is given P/1000 [kPa] and tau = Tc/T
KernelCall(f, P, T) == [f |-> f, P |-> P, T |-> T]

\* Mutant: the temperature test is not strict
htpx_liquid_at_saturation(T, Tsat, P, Pc) == T <= Tsat \/ P > Pc

\* "if value(T) < Tsat or value(P) > Pc:  # liquid"
htpx_liquid(T, Tsat, P, Pc) == T < Tsat \/ P > Pc

\* Mutant: the weights are exchanged
htpx_blend_exchanged(hl, hv, x) == hl * x + hv * (VfDen - x)

\* "value(hlpt*mw*1000)*(1 - x) + value(hvpt*mw*1000)*x", times VfDen; hl and hv
\* are the molar enthalpies, x the numerator of the fraction
htpx_blend(hl, hv, x) == hl * (VfDen - x) + hv * x

\* Mutant: the model is constructed and the kernel is called before the checks
htpx_checks_late(T, P, x, k) ==
    LET err == htpx_error(T, P, x) IN
    IF err # "none" THEN
        [ done |-> TRUE, err |-> err, model |-> HtpxModel,
          kernel |-> <<KernelCall("func_tau_sat", P.v, 0)>>, branch |-> "none", value |-> 0 ]
    ELSE
        [ done |-> TRUE, err |-> "none", model |-> HtpxModel,
          kernel |-> <<>>, branch |-> "none", value |-> 0 ]

\* _htpx(T, prop, P, x); k holds the parameters of prop (Pc, mw [g/mol]) and
\* what the kernel returns: Tsat = Tc/func_tau_sat(P/1000) [K], Psat =
\* func_p_sat(Tc/T) [kPa], hl = func_hlpt(..), hv = func_hvpt(..) [kJ/kg].
\* The value returned [J/mol] is held as its multiple by VfDen.
htpx(T, P, x, k) ==
    LET err == htpx_error(T, P, x) IN
    IF err # "none" THEN
        [ done |-> TRUE, err |-> err, model |-> NoModel,
          kernel |-> <<>>, branch |-> "none", value |-> 0 ]
    ELSE IF ~x.given THEN
        IF htpx_liquid(T, k.Tsat, P.v, k.Pc) THEN
            [ done |-> TRUE, err |-> "none", model |-> HtpxModel,
              kernel |-> <<KernelCall("func_tau_sat", P.v, 0),
                           KernelCall("func_hlpt", P.v, T)>>,
              branch |-> "hlpt", value |-> VfDen * (k.hl * k.mw) ]
        ELSE
            [ done |-> TRUE, err |-> "none", model |-> HtpxModel,
              kernel |-> <<KernelCall("func_tau_sat", P.v, 0),
                           KernelCall("func_hvpt", P.v, T)>>,
              branch |-> "hvpt", value |-> VfDen * (k.hv * k.mw) ]
    ELSE
        [ done |-> TRUE, err |-> "none", model |-> HtpxModel,
          kernel |-> <<KernelCall("func_p_sat", 0, T),
                       KernelCall("func_hlpt", 1000 * k.Psat, T),
                       KernelCall("func_hvpt", 1000 * k.Psat, T)>>,
          branch |-> "blend", value |-> htpx_blend(k.hl * k.mw, k.hv * k.mw, x.v) ]

HtpxT == {Tmin - 1, Tmin, 372, Tmax, Tmax + 1}
HtpxP == {NoArg} \cup {Arg(v) : v \in {Pmin - 1, Pmin, 101325, Pmax, Pmax + 1}}
HtpxX == {NoArg} \cup {Arg(v) : v \in (0 - 1)..(VfDen + 1)}

\* The parameters of the fluid and the values the kernel returns
HtpxKernel == [Pc : {22064000}, mw : {18}, Tsat : {372, 373}, Psat : {95},
               hl : {100, 415}, hv : {415, 2675}]

InitHtpx ==
    /\ param = ParameterBlockBuild("PH", "MIX", TRUE)
    /\ blk = [i \in Idx |-> NotBuilt]
    /\ held = <<>>
    /\ ncalls = 0
    /\ last = NoOp
    /\ call \in [fn : {"htpx"}, T : HtpxT, P : HtpxP, x : HtpxX, k : HtpxKernel]
    /\ ret = NoRet

\* A call of _htpx(T, prop, P, x)
EvalHtpx ==
    /\ call.fn = "htpx" /\ ~ret.done
    /\ ret' = htpx(call.T, call.P, call.x, call.k)
    /\ UNCHANGED <<param, blk, held, ncalls, last, call>>

SpecHtpx == InitHtpx /\ [][EvalHtpx]_vars

HtpxReturned == call.fn = "htpx" /\ ret.done

HtpxInBounds ==
    /\ Tmin <= call.T /\ call.T <= Tmax
    /\ call.P.given => (Pmin <= call.P.v /\ call.P.v <= Pmax)
    /\ call.x.given => (0 <= call.x.v /\ call.x.v <= VfDen)

\* C10: _htpx raises the "one (and only one) of arguments P and x" error exactly
\* when both or neither of P and x are given, whatever T is; with exactly one
\* given and every value inside its bounds it raises nothing.
C10_ExactlyOneOfPx ==
    HtpxReturned
        => /\ (ret.err = "one_of_P_and_x") <=> (call.P.given = call.x.given)
           /\ (call.P.given # call.x.given /\ HtpxInBounds) => ret.err = "none"

\* C10 witness: both given with T out of bounds: the exclusivity error
C10_Witness ==
    /\ HtpxReturned
    /\ call.P.given /\ call.x.given /\ call.T > Tmax
    /\ ret.err = "one_of_P_and_x"

\* C11: with exactly one of P and x given, _htpx raises exactly when T is
\* outside [Tmin, Tmax], or the given P is outside [Pmin, Pmax], or the given x
\* is outside [0, 1]; a value equal to a bound is accepted.
C11_BoundsInclusive ==
    (HtpxReturned /\ call.P.given # call.x.given)
        => /\ (ret.err # "none") <=> ~HtpxInBounds
           /\ ret.err = "T" <=> (call.T < Tmin \/ call.T > Tmax)
           /\ (call.T \in {Tmin, Tmax} /\ call.P.given /\ call.P.v \in {Pmin, Pmax})
                 => ret.err = "none"
           /\ (call.T \in {Tmin, Tmax} /\ call.x.given /\ call.x.v \in {0, VfDen})
                 => ret.err = "none"

\* C11 witness: T = Tmin with P = Pmax is accepted
C11_Witness ==
    /\ HtpxReturned /\ ~call.x.given
    /\ call.T = Tmin /\ call.P.given /\ call.P.v = Pmax
    /\ ret.err = "none"

HtpxByPressure == HtpxReturned /\ ret.err = "none" /\ call.P.given
HtpxByFraction == HtpxReturned /\ ret.err = "none" /\ call.x.given

\* C12 (as claimed): with P given, _htpx returns the liquid-branch enthalpy
\* (hlpt) exactly when T is below the saturation temperature at P, and the
\* vapor-branch enthalpy (hvpt) otherwise, for every P within the bounds.
C12_LiquidIffSubcooled ==
    HtpxByPressure
        => /\ ret.branch = "hlpt" <=> call.T < call.k.Tsat
           /\ ret.branch = "hvpt" <=> ~(call.T < call.k.Tsat)

\* C12 (amended): with P given, _htpx returns the liquid-branch enthalpy (hlpt)
\* exactly when T is below the saturation temperature at P or P is above the
\* critical pressure, and the vapor-branch enthalpy (hvpt) otherwise.
C12_LiquidIffSubcooledOrSupercritical ==
    HtpxByPressure
        => LET liquid == call.T < call.k.Tsat \/ call.P.v > call.k.Pc IN
           /\ ret.branch = "hlpt" <=> liquid
           /\ ret.branch = "hvpt" <=> ~liquid
           /\ liquid => /\ ret.value = VfDen * (call.k.hl * call.k.mw)
                        /\ ret.kernel[2] = KernelCall("func_hlpt", call.P.v, call.T)
           /\ ~liquid => /\ ret.value = VfDen * (call.k.hv * call.k.mw)
                         /\ ret.kernel[2] = KernelCall("func_hvpt", call.P.v, call.T)

\* C12 witness: above the critical pressure, at a temperature that is not below
\* the saturation temperature, the liquid branch is returned
C12_Witness ==
    /\ HtpxByPressure
    /\ call.P.v > call.k.Pc /\ call.T >= call.k.Tsat
    /\ ret.branch = "hlpt" /\ call.k.hl # call.k.hv
    /\ ret.value = VfDen * (call.k.hl * call.k.mw)

\* C13: with x given, _htpx returns (1 - x)*hL + x*hV, where hL and hV are the
\* molar enthalpies of saturated liquid and saturated vapor at the saturation
\* pressure of T; x = 0 returns hL and x = 1 returns hV.
C13_LinearBlend ==
    HtpxByFraction
        => LET hL == call.k.hl * call.k.mw
               hV == call.k.hv * call.k.mw
           IN /\ ret.value = (VfDen - call.x.v) * hL + call.x.v * hV
              /\ ret.kernel = <<KernelCall("func_p_sat", 0, call.T),
                                KernelCall("func_hlpt", 1000 * call.k.Psat, call.T),
                                KernelCall("func_hvpt", 1000 * call.k.Psat, call.T)>>
              /\ call.x.v = 0 => ret.value = VfDen * hL
              /\ call.x.v = VfDen => ret.value = VfDen * hV

\* C13 witness: a fraction strictly between 0 and 1 with different enthalpies
C13_Witness ==
    /\ HtpxByFraction
    /\ 0 < call.x.v /\ call.x.v < VfDen
    /\ call.k.hl < call.k.hv
    /\ VfDen * (call.k.hl * call.k.mw) < ret.value
    /\ ret.value < VfDen * (call.k.hv * call.k.mw)

\* C14: when _htpx fails on an argument check it has called no kernel function
\* and has constructed no model object; the property block and the parameter
\* block are as they were.
C14_FailsBeforeKernel ==
    (HtpxReturned /\ ret.err # "none")
        => /\ ret.kernel = <<>>
           /\ ret.model = NoModel
           /\ param = ParameterBlockBuild("PH", "MIX", TRUE)
           /\ blk = [i \in Idx |-> NotBuilt]

\* C14 witness: the last check, on x, fails
C14_Witness ==
    /\ HtpxReturned
    /\ ret.err = "x" /\ call.x.v > VfDen
    /\ ret.kernel = <<>> /\ ~ret.model.constructed

----------------------------------------------------------------------------
(* Rational numbers: the values of expressions *)

Abs(n) == IF n < 0 THEN 0 - n ELSE n

RECURSIVE Gcd(_, _)
Gcd(a, b) == IF b = 0 THEN a ELSE Gcd(b, a % b)

\* n/d in lowest terms with d > 0; a division by zero (ZeroDivisionError) has
\* no value, which is held as d = 0
NoValue == [n |-> 0, d |-> 0]
Rat(n, d) ==
    IF d = 0 THEN NoValue
    ELSE LET g == Gcd(Abs(n), Abs(d))
             s == IF d < 0 THEN 0 - 1 ELSE 1
         IN [n |-> s * (n \div g), d |-> s * (d \div g)]

RInt(k) == [n |-> k, d |-> 1]
Defined(a) == a.d # 0

RAdd(a, b) ==
    IF ~Defined(a) \/ ~Defined(b) THEN NoValue
    ELSE LET g == Gcd(a.d, b.d)
         IN Rat(a.n * (b.d \div g) + b.n * (a.d \div g), (a.d \div g) * b.d)

RSub(a, b) == RAdd(a, [b EXCEPT !.n = 0 - b.n])

RMul(a, b) ==
    IF ~Defined(a) \/ ~Defined(b) THEN NoValue
    ELSE LET g1 == Gcd(Abs(a.n), b.d)
             g2 == Gcd(Abs(b.n), a.d)
         IN Rat((a.n \div g1) * (b.n \div g2), (a.d \div g2) * (b.d \div g1))

RDiv(a, b) ==
    IF ~Defined(a) \/ ~Defined(b) \/ b.n = 0 THEN NoValue
    ELSE RMul(a, Rat(b.d, b.n))

RPos(a) == Defined(a) /\ a.n > 0

----------------------------------------------------------------------------
(* HelmholtzStateBlockData.build: the components and the scaling suffixes *)

\* The index of a scalar component
None == "None"
Scalar == {None}

Comp(name, ctype, idx) == [name |-> name, ctype |-> ctype, idx |-> idx]

\* _external_functions
external_functions ==
    { "func_p", "func_u", "func_s", "func_h", "func_hvpt", "func_hlpt", "func_tau",
      "func_vf", "func_g", "func_f", "func_cv", "func_cp", "func_w",
      "func_delta_liq", "func_delta_vap", "func_delta_sat_l", "func_delta_sat_v",
      "func_p_sat", "func_tau_sat", "func_phi0", "func_phi0_delta",
      "func_phi0_delta2", "func_phi0_tau", "func_phi0_tau2", "func_phir",
      "func_phir_delta", "func_phir_delta2", "func_phir_tau", "func_phir_tau2",
      "func_phir_delta_tau" }

\* The component list given to _set_parameters: a pure fluid
component_list == {"H2O"}

\* The scalar expressions of build
ScalarExpressions ==
    { "temperature_crit", "pressure_crit", "dens_mass_crit", "mw", "temperature_sat",
      "tau_sat", "temperature_red", "tau", "pressure_sat", "dh_vap_mol",
      "energy_internal_mol", "entr_mol", "cp_mol", "cv_mol", "dens_mass", "dens_mol",
      "heat_capacity_ratio", "flow_vol", "flow_mass", "enth_mass" }

\* The expressions indexed by phlist (priv_plist in _tpx_phase_eq)
PhaseExpressions ==
    { "dens_mass_phase", "dens_phase_red", "enth_mol_sat_phase",
      "energy_internal_mol_phase", "enth_mol_phase", "entr_mol_phase", "cp_mol_phase",
      "cv_mol_phase", "speed_sound_phase", "dens_mol_phase", "phase_frac" }

\* The expressions indexed by pub_phlist
BalanceTerms == {"material_flow_terms", "enthalpy_flow_terms", "energy_density_terms"}

\* build: the components of an element
Components(p, defined_state) ==
    {Comp("scaling_factor", "Suffix", Scalar), Comp("scaling_expression", "Suffix", Scalar)}
    \cup {Comp(f, "ExternalFunction", Scalar) : f \in external_functions}
    \cup {Comp(n, "Expression", Scalar) : n \in ScalarExpressions}
    \cup {Comp(n, state_vars_components(p)[n].ctype, Scalar) : n \in Names}
    \cup {Comp(n, "Expression", p.private_phase_list) : n \in PhaseExpressions}
    \cup {Comp("flow_mol_comp", "Expression", component_list)}
    \cup {Comp(n, "Expression", p.phase_list) : n \in BalanceTerms}
    \cup (IF p.state_vars = "TPX"
          THEN {Comp("P_under_sat", "Expression", Scalar),
                Comp("P_over_sat", "Expression", Scalar),
                Comp("eq_sat", "Constraint", Scalar)}
               \cup (IF tpx_eq_complementarity(p, defined_state) = "active"
                     THEN {Comp("eq_complementarity", "Constraint", Scalar)}
                     ELSE {})
          ELSE {})

\* self.scaling_factor[c[i]] = n/d
SF(c, i, n, d) == [c |-> c, i |-> i, v |-> Rat(n, d)]

\* The entries of the suffix scaling_factor
scaling_factor(p) ==
    { SF("flow_mol", None, 1, 1000), SF("enth_mol", None, 1, 1000),
      SF("temperature", None, 1, 10), SF("pressure", None, 1, 1000000),
      SF("vapor_frac", None, 10, 1),
      SF("temperature_crit", None, 1, 100), SF("pressure_crit", None, 1, 1000000),
      SF("dens_mass_crit", None, 1, 100), SF("mw", None, 1000, 1),
      SF("temperature_sat", None, 1, 100), SF("temperature_red", None, 1, 1),
      SF("pressure_sat", None, 1, 100000), SF("dh_vap_mol", None, 1, 10000),
      SF("energy_internal_mol", None, 1, 1000), SF("entr_mol", None, 1, 10),
      SF("cp_mol", None, 1, 100), SF("cv_mol", None, 1, 100),
      SF("dens_mass", None, 1, 1), SF("dens_mol", None, 1, 1000),
      SF("heat_capacity_ratio", None, 10, 1), SF("flow_vol", None, 100, 1),
      SF("flow_mass", None, 1, 1), SF("enth_mass", None, 1, 1),
      SF("dens_mass_phase", "Liq", 1, 100), SF("dens_mass_phase", "Vap", 10, 1),
      SF("enth_mol_sat_phase", "Liq", 1, 100), SF("enth_mol_sat_phase", "Vap", 1, 10000),
      SF("energy_internal_mol_phase", "Liq", 1, 100),
      SF("energy_internal_mol_phase", "Vap", 1, 10000),
      SF("enth_mol_phase", "Liq", 1, 100), SF("enth_mol_phase", "Vap", 1, 10000),
      SF("entr_mol_phase", "Liq", 1, 10), SF("entr_mol_phase", "Vap", 1, 10),
      SF("cp_mol_phase", "Liq", 1, 100), SF("cp_mol_phase", "Vap", 1, 100),
      SF("cv_mol_phase", "Liq", 1, 100), SF("cv_mol_phase", "Vap", 1, 100),
      SF("speed_sound_phase", "Liq", 1, 100), SF("speed_sound_phase", "Vap", 1, 100),
      SF("dens_mol_phase", "Liq", 1, 100), SF("dens_mol_phase", "Vap", 1, 10000),
      SF("phase_frac", "Liq", 10, 1), SF("phase_frac", "Vap", 10, 1) }
    \cup {SF("flow_mol_comp", i, 1, 1000) : i \in component_list}
    \cup (IF p.state_vars = "PH"
          THEN {SF("dens_phase_red", ph, 1, 1) : ph \in p.private_phase_list}
          ELSE {})

\* A factor of an expression: the component c[i]
Term(c, i) == [c |-> c, i |-> i]

\* self.scaling_expression[c[i]] = num / (the product of den)
SE(c, i, num, den) == [c |-> c, i |-> i, num |-> num, den |-> den]

\* rule_enthalpy_flow_terms: the denominator of the scaling expression
enthalpy_flow_scaling(ph) ==
    IF ph = "Mix" THEN <<Term("enth_mol", None), Term("flow_mol", None)>>
    ELSE <<Term("enth_mol_phase", ph), Term("phase_frac", ph), Term("flow_mol", None)>>

\* rule_energy_density_terms: the denominator of the scaling expression
energy_density_scaling(ph) ==
    IF ph = "Mix" THEN <<Term("energy_internal_mol", None), Term("flow_mol", None)>>
    ELSE <<Term("dens_mol_phase", ph), Term("energy_internal_mol_phase", ph)>>

\* Mutant: every phase carries the vapor fraction of the flow
material_flow_term_vapor(ph) ==
    IF ph = "Mix" THEN <<Term("flow_mol", None)>>
    ELSE <<Term("flow_mol", None), Term("phase_frac", "Vap")>>

\* rule_material_flow_terms: the factors of the expression it returns
material_flow_term(ph) ==
    IF ph = "Mix" THEN <<Term("flow_mol", None)>>
    ELSE <<Term("flow_mol", None), Term("phase_frac", ph)>>

\* rule_enthalpy_flow_terms: the factors of the expression it returns
enthalpy_flow_term(ph) ==
    IF ph = "Mix" THEN <<Term("enth_mol", None), Term("flow_mol", None)>>
    ELSE <<Term("enth_mol_phase", ph), Term("phase_frac", ph), Term("flow_mol", None)>>

\* rule_energy_density_terms: the factors of the expression it returns
energy_density_term(ph) ==
    IF ph = "Mix" THEN <<Term("dens_mol", None), Term("energy_internal_mol", None)>>
    ELSE <<Term("dens_mol_phase", ph), Term("energy_internal_mol_phase", ph)>>

\* The expressions material_flow_terms[ph], enthalpy_flow_terms[ph] and
\* energy_density_terms[ph]: c[i] is the product of the factors
balance_terms(p) ==
    {[c |-> "material_flow_terms", i |-> ph, factors |-> material_flow_term(ph)] :
        ph \in p.phase_list}
    \cup {[c |-> "enthalpy_flow_terms", i |-> ph, factors |-> enthalpy_flow_term(ph)] :
              ph \in p.phase_list}
    \cup {[c |-> "energy_density_terms", i |-> ph, factors |-> energy_density_term(ph)] :
              ph \in p.phase_list}

\* The entries of the suffix scaling_expression
scaling_expression(p, defined_state) ==
    {SE("material_flow_terms", ph, 1, <<Term("flow_mol", None)>>) : ph \in p.phase_list}
    \cup {SE("enthalpy_flow_terms", ph, 1, enthalpy_flow_scaling(ph)) : ph \in p.phase_list}
    \cup {SE("energy_density_terms", ph, 1, energy_density_scaling(ph)) : ph \in p.phase_list}
    \cup (IF p.state_vars = "TPX"
          THEN {SE("eq_sat", None, 1000, <<Term("pressure", None)>>)}
               \cup (IF tpx_eq_complementarity(p, defined_state) = "active"
                     THEN {SE("eq_complementarity", None, 10, <<Term("pressure", None)>>)}
                     ELSE {})
          ELSE {})

\* _state_vars: self.extensive_set = ComponentSet((self.flow_mol,))
extensive_set(p) == {"flow_mol"}

\* Mutant: the flow is tagged intensive as well
intensive_set_with_flow(p) ==
    IF p.state_vars = "PH" THEN {"flow_mol", "enth_mol", "pressure"}
    ELSE {"flow_mol", "temperature", "pressure", "vapor_frac"}

\* _state_vars: self.intensive_set = ComponentSet(...), the same under every
\* phase presentation
intensive_set(p) ==
    IF p.state_vars = "PH" THEN {"enth_mol", "pressure"}
    ELSE {"temperature", "pressure", "vapor_frac"}

\* Mutant: vapor_frac is a key in TPX mode under every presentation
state_vars_dict_with_vapor_frac(p) ==
    IF p.state_vars = "PH" THEN {"flow_mol", "enth_mol", "pressure"}
    ELSE {"flow_mol", "temperature", "pressure", "vapor_frac"}

\* "Set the state vars dictionary": the keys of _state_vars_dict; each key n is
\* mapped to the component self.n
state_vars_dict(p) ==
    IF p.state_vars = "PH" THEN {"flow_mol", "enth_mol", "pressure"}
    ELSE IF p.config.phase_presentation \in {"MIX", "LG"}
         THEN {"flow_mol", "temperature", "pressure", "vapor_frac"}
    ELSE {"flow_mol", "temperature", "pressure"}

\* define_state_vars
define_state_vars(inst) == inst.state_vars_dict

\* extensive_state_vars
extensive_state_vars(inst) == inst.extensive_set

\* intensive_state_vars
intensive_state_vars(inst) == inst.intensive_set

LibraryNotFound == "error: Library file not found. Was it installed?"

\* Mutant: build raises when the library is not available
build_requires_library(p, defined_state) ==
    [ err |-> IF p.available THEN "none" ELSE "RuntimeError",
      elem |-> StateBlockDataBuild(p, defined_state),
      available |-> p.available,
      log |-> <<>>,
      components |-> IF p.available THEN Components(p, defined_state) ELSE {},
      scaling_factor |-> scaling_factor(p),
      scaling_expression |-> scaling_expression(p, defined_state),
      balance_terms |-> balance_terms(p),
      extensive_set |-> extensive_set(p),
      intensive_set |-> intensive_set(p),
      state_vars_dict |-> state_vars_dict(p) ]

\* HelmholtzStateBlockData.build: the element, with its components and suffixes
build(p, defined_state) ==
    [ err |-> "none",
      elem |-> StateBlockDataBuild(p, defined_state),
      available |-> p.available,
      log |-> IF ~p.available THEN <<LibraryNotFound>> ELSE <<>>,
      components |-> Components(p, defined_state),
      scaling_factor |-> scaling_factor(p),
      scaling_expression |-> scaling_expression(p, defined_state),
      balance_terms |-> balance_terms(p),
      extensive_set |-> extensive_set(p),
      intensive_set |-> intensive_set(p),
      state_vars_dict |-> state_vars_dict(p) ]

----------------------------------------------------------------------------
(* Values of the expressions of an element at a point *)

\* The value of vapor_frac: the constant of the expression (PH, L or G), else
\* the value pt.vf/VfDen of the variable (TPX) or of func_vf (PH)
vapor_frac_at(inst, pt) ==
    LET c == inst.elem.comp.vapor_frac IN
    IF c.ctype = "Expression" /\ c.expr = "const" THEN Rat(c.value, VfDen)
    ELSE Rat(pt.vf, VfDen)

\* rule_phase_frac
rule_phase_frac(vf, ph) == IF ph = "Vap" THEN vf ELSE RSub(RInt(1), vf)

\* Mutant: the arithmetic weighted mean
harmonic_mean_arithmetic(pf, dens) ==
    RAdd(RMul(pf["Vap"], dens["Vap"]), RMul(pf["Liq"], dens["Liq"]))

\* "1.0 / sum(self.phase_frac[p] * 1.0 / dens[p] for p in phlist)"
harmonic_mean(pf, dens) ==
    RDiv(RInt(1), RAdd(RDiv(RMul(pf["Vap"], RInt(1)), dens["Vap"]),
                       RDiv(RMul(pf["Liq"], RInt(1)), dens["Liq"])))

\* "sum(self.phase_frac[p] * x[p] for p in phlist)"
weighted_sum(pf, x) == RAdd(RMul(pf["Vap"], x["Vap"]), RMul(pf["Liq"], x["Liq"]))

\* The phase properties at a point: what the kernel returns there
dens_mass_phase_at(pt) == [ph \in private_phase_list |-> RInt(pt.dens_mass_phase[ph])]
dens_mol_phase_at(pt) ==
    [ph \in private_phase_list |-> RDiv(RInt(pt.dens_mass_phase[ph]), pt.mw)]
phase_frac_at(inst, pt) ==
    [ph \in private_phase_list |-> rule_phase_frac(vapor_frac_at(inst, pt), ph)]

\* The value of the component t.c[t.i]
TermValue(t, inst, pt) ==
    LET pf == phase_frac_at(inst, pt) IN
    CASE t.c = "flow_mol" -> RInt(pt.flow_mol)
      [] t.c = "pressure" -> RInt(inst.elem.comp.pressure.value)
      [] t.c = "enth_mol" ->
            IF inst.elem.comp.enth_mol.ctype = "Var"
            THEN RInt(inst.elem.comp.enth_mol.value)
            ELSE weighted_sum(pf, [ph \in private_phase_list |-> RInt(pt.enth_mol_phase[ph])])
      [] t.c = "enth_mol_phase" -> RInt(pt.enth_mol_phase[t.i])
      [] t.c = "energy_internal_mol_phase" -> RInt(pt.energy_internal_mol_phase[t.i])
      [] t.c = "energy_internal_mol" ->
            weighted_sum(pf, [ph \in private_phase_list |->
                                RInt(pt.energy_internal_mol_phase[ph])])
      [] t.c = "dens_mol_phase" -> dens_mol_phase_at(pt)[t.i]
      [] t.c = "phase_frac" -> pf[t.i]
      [] t.c = "dens_mol" -> harmonic_mean(pf, dens_mol_phase_at(pt))

RECURSIVE ProductFrom(_, _, _, _)
ProductFrom(den, k, inst, pt) ==
    IF k > Len(den) THEN RInt(1)
    ELSE RMul(TermValue(den[k], inst, pt), ProductFrom(den, k + 1, inst, pt))

\* The value of a scaling expression
scaling_expression_value(e, inst, pt) ==
    RDiv(RInt(e.num), ProductFrom(e.den, 1, inst, pt))

\* The values at the point
Evaluate(inst, pt) ==
    [ vapor_frac |-> vapor_frac_at(inst, pt),
      phase_frac |-> phase_frac_at(inst, pt),
      dens_mass |-> harmonic_mean(phase_frac_at(inst, pt), dens_mass_phase_at(pt)),
      dens_mol |-> harmonic_mean(phase_frac_at(inst, pt), dens_mol_phase_at(pt)),
      scaling_expression |->
          {[c |-> e.c, i |-> e.i, v |-> scaling_expression_value(e, inst, pt)] :
              e \in inst.scaling_expression},
      balance_terms |->
          {[c |-> t.c, i |-> t.i, v |-> ProductFrom(t.factors, 1, inst, pt)] :
              t \in inst.balance_terms} ]

\* The points: the flow, the vapor fraction (vapor_frac has no bounds) and what
\* the kernel returns for the two phases
BuildPoints ==
    [ flow_mol : {1, 3},
      vf : (0 - 1)..(VfDen + 1),
      dens_mass_phase : {[Liq |-> 500, Vap |-> 5], [Liq |-> 55, Vap |-> 5]},
      enth_mol_phase : {[Liq |-> 400, Vap |-> 4800]},
      energy_internal_mol_phase : {[Liq |-> 400, Vap |-> 4500]},
      mw : {Rat(1, 50)} ]

InitBuild ==
    /\ call \in [fn : {"build"}, isfile : BOOLEAN, defined_state : BOOLEAN, pt : BuildPoints]
    /\ param \in {ParameterBlockBuild(sv, pp, call.isfile) :
                     sv \in StateVars, pp \in PhaseType}
    /\ blk = [i \in Idx |-> NotBuilt]
    /\ held = <<>>
    /\ ncalls = 0
    /\ last = NoOp
    /\ ret = NoRet

\* Construction of an element from the parameter block, and the evaluation of
\* its expressions at the point
EvalBuild ==
    /\ call.fn = "build" /\ ~ret.done
    /\ LET inst == build(param, call.defined_state)
       IN ret' = [done |-> TRUE, inst |-> inst, at |-> Evaluate(inst, call.pt)]
    /\ UNCHANGED <<param, blk, held, ncalls, last, call>>

SpecBuild == InitBuild /\ [][EvalBuild]_vars

BuildEvaluated == call.fn = "build" /\ ret.done

\* C15: when the library file is not found, the parameter block and the
\* element are built without an error, both have available = False, an error
\* is logged, and the element has the components it has with the library.
C15_MissingLibraryBuilds ==
    (BuildEvaluated /\ ~call.isfile)
        => /\ ~param.available
           /\ ret.inst.err = "none"
           /\ ~ret.inst.available
           /\ ret.inst.log = <<LibraryNotFound>>
           /\ ret.inst.components =
                 Components(ParameterBlockBuild(Mode, Pres, TRUE), call.defined_state)
           /\ \A f \in external_functions :
                 Comp(f, "ExternalFunction", Scalar) \in ret.inst.components

\* C15 witness: an element with a complementarity constraint built without the
\* library
C15_Witness ==
    /\ BuildEvaluated /\ ~call.isfile
    /\ ret.inst.log # <<>>
    /\ Comp("eq_complementarity", "Constraint", Scalar) \in ret.inst.components
    /\ Comp("pressure", "Var", Scalar) \in ret.inst.components

\* The initial point of an element: flow_mol has the value it was built with; in
\* TPX mode vapor_frac has the value it was built with; in PH mode func_vf returns a fraction strictly between 0 and 1
AtDefaultPoint ==
    /\ call.pt.flow_mol = ret.inst.elem.comp.flow_mol.value
    /\ IF Mode = "TPX" THEN call.pt.vf = ret.inst.elem.comp.vapor_frac.value
       ELSE 0 < call.pt.vf /\ call.pt.vf < VfDen

\* C16 (as claimed): for every configuration, every entry of scaling_factor and
\* of scaling_expression has a value at the initial point, and the value is
\* strictly positive.
C16_LedgerPositiveAtDefault ==
    (BuildEvaluated /\ AtDefaultPoint)
        => /\ \A e \in ret.inst.scaling_factor : RPos(e.v)
           /\ \A e \in ret.at.scaling_expression : Defined(e.v) /\ RPos(e.v)

\* C17: define_state_vars returns a mapping with the keys flow_mol, enth_mol,
\* pressure in PH mode; flow_mol, temperature, pressure, vapor_frac in TPX mode
\* under MIX or LG; flow_mol, temperature, pressure in TPX mode under L or G.
\* The keys are the variables whose status initialize captures.
C17_StateVarKeys ==
    BuildEvaluated
        => /\ define_state_vars(ret.inst) = ClaimedNames(Mode, Pres)
           /\ define_state_vars(ret.inst) = SeqRange(HoldNames(Mode, Pres))
           /\ Cardinality(define_state_vars(ret.inst)) =
                 (IF Mode = "TPX" /\ Pres \in {"MIX", "LG"} THEN 4 ELSE 3)
           /\ \A n \in define_state_vars(ret.inst) :
                 Comp(n, "Var", Scalar) \in ret.inst.components

\* C17 witness: TPX mode under L: three keys, vapor_frac is not one
C17_Witness ==
    /\ BuildEvaluated /\ Mode = "TPX" /\ Pres = "L"
    /\ define_state_vars(ret.inst) = {"flow_mol", "temperature", "pressure"}
    /\ Comp("vapor_frac", "Var", Scalar) \in ret.inst.components

\* C18: in both modes and under every presentation the private phase list is
\* {Liq, Vap}, every phase property of the element is indexed by these two
\* labels, and the public phase list is {Mix}, {Vap, Liq}, {Liq}, {Vap} for
\* MIX, LG, L, G.
C18_PhaseSets ==
    BuildEvaluated
        => /\ param.private_phase_list = {"Liq", "Vap"}
           /\ \A n \in PhaseExpressions :
                 \A c \in ret.inst.components :
                     c.name = n => (c.ctype = "Expression" /\ c.idx = {"Liq", "Vap"})
           /\ \A n \in PhaseExpressions : \E c \in ret.inst.components : c.name = n
           /\ param.phase_list = (CASE Pres = "MIX" -> {"Mix"}
                                    [] Pres = "LG" -> {"Vap", "Liq"}
                                    [] Pres = "L" -> {"Liq"}
                                    [] Pres = "G" -> {"Vap"})
           /\ \A c \in ret.inst.components :
                 c.name \in BalanceTerms => c.idx = param.phase_list

\* C18 witness: under MIX the public list is {Mix} and the phase enthalpy is
\* indexed by Liq and Vap
C18_Witness ==
    /\ BuildEvaluated /\ Pres = "MIX"
    /\ param.phase_list = {"Mix"}
    /\ Comp("enth_mol_phase", "Expression", {"Liq", "Vap"}) \in ret.inst.components

\* vapor_frac/dens[Vap] + (1 - vapor_frac)/dens[Liq]
ReciprocalSum(vf, dens) ==
    RAdd(RDiv(vf, dens["Vap"]), RDiv(RSub(RInt(1), vf), dens["Liq"]))

\* A rational rounded to hundredths, times 100
Hundredths(r) == (200 * r.n + r.d) \div (2 * r.d)

ExamplePoint ==
    /\ call.pt.dens_mass_phase = [Liq |-> 500, Vap |-> 5]
    /\ ret.at.vapor_frac = Rat(3, 10)

\* C19 (as claimed): dens_mass and dens_mol satisfy 1/dens = vapor_frac/dens[Vap]
\* + (1 - vapor_frac)/dens[Liq] for every vapor_frac; phase densities 500 and 5
\* with vapor_frac 0.3 give 16.39; at vapor_frac 0 the density is the liquid's
\* and at 1 the vapor's.
C19_HarmonicMeanAs1639 ==
    BuildEvaluated
        => LET vf == ret.at.vapor_frac
               dm == dens_mass_phase_at(call.pt)
               dn == dens_mol_phase_at(call.pt)
           IN /\ Defined(ret.at.dens_mass) /\ Defined(ret.at.dens_mol)
              /\ RMul(ret.at.dens_mass, ReciprocalSum(vf, dm)) = RInt(1)
              /\ RMul(ret.at.dens_mol, ReciprocalSum(vf, dn)) = RInt(1)
              /\ ExamplePoint => Hundredths(ret.at.dens_mass) = 1639
              /\ vf = RInt(0) => (ret.at.dens_mass = dm["Liq"] /\ ret.at.dens_mol = dn["Liq"])
              /\ vf = RInt(1) => (ret.at.dens_mass = dm["Vap"] /\ ret.at.dens_mol = dn["Vap"])

\* C19 (amended): dens_mass and dens_mol satisfy 1/dens = vapor_frac/dens[Vap]
\* + (1 - vapor_frac)/dens[Liq] wherever that sum is not zero, which includes
\* every vapor_frac from 0 to 1, and have no value where it is zero; phase
\* densities 500 and 5 with vapor_frac 0.3 give 16.29; at vapor_frac 0 the
\* density is the liquid's and at 1 the vapor's.
C19_HarmonicMean ==
    BuildEvaluated
        => LET vf == ret.at.vapor_frac
               dm == dens_mass_phase_at(call.pt)
               dn == dens_mol_phase_at(call.pt)
           IN /\ ReciprocalSum(vf, dm).n # 0
                    => RMul(ret.at.dens_mass, ReciprocalSum(vf, dm)) = RInt(1)
              /\ ReciprocalSum(vf, dn).n # 0
                    => RMul(ret.at.dens_mol, ReciprocalSum(vf, dn)) = RInt(1)
              /\ ReciprocalSum(vf, dm).n = 0 => ~Defined(ret.at.dens_mass)
              /\ ReciprocalSum(vf, dn).n = 0 => ~Defined(ret.at.dens_mol)
              /\ (0 <= vf.n /\ vf.n <= vf.d)
                    => (RPos(ret.at.dens_mass) /\ RPos(ret.at.dens_mol))
              /\ ExamplePoint
                    => /\ ret.at.dens_mass = Rat(5000, 307)
                       /\ Hundredths(ret.at.dens_mass) = 1629
              /\ vf = RInt(0) => (ret.at.dens_mass = dm["Liq"] /\ ret.at.dens_mol = dn["Liq"])
              /\ vf = RInt(1) => (ret.at.dens_mass = dm["Vap"] /\ ret.at.dens_mol = dn["Vap"])

\* C19 witness: the densities 500 and 5 at vapor_frac 0.3
C19_Witness ==
    /\ BuildEvaluated /\ ExamplePoint
    /\ Mode = "TPX" /\ call.pt.vf = 3
    /\ Hundredths(ret.at.dens_mass) = 1629

----------------------------------------------------------------------------
(* Claims about P_under_sat and P_over_sat *)

Min(a, b) == IF a < b THEN a ELSE b

\* C20: for every P, Psat and eps > 0, P_under_sat and P_over_sat are not
\* negative and the smaller of the two is at most eps/2; their difference is
\* P - Psat; for eps = 0 their product is 0.
C20_DistancesNotNegative ==
    ComplEvaluated
        => /\ ret.P_under_sat >= 0
           /\ ret.P_over_sat >= 0
           /\ 2 * Min(ret.P_under_sat, ret.P_over_sat) <= call.eps
           /\ ret.P_over_sat - ret.P_under_sat = call.P - call.Psat
           /\ call.eps = 0 => ret.P_under_sat * ret.P_over_sat = 0

\* C20 witness: eps > 0 and P above Psat: P_over_sat is positive and
\* P_under_sat is not negative
C20_Witness ==
    /\ ComplEvaluated
    /\ call.eps > 0 /\ call.P > call.Psat
    /\ ret.P_over_sat >= call.P - call.Psat /\ ret.P_under_sat >= 0
    /\ ret.P_under_sat < ret.P_over_sat

----------------------------------------------------------------------------
(* Claims about the pressure of the phase densities *)

Max(a, b) == IF a > b THEN a ELSE b

\* C21: in mode TPX the liquid density is evaluated at P + P_under_sat and the
\* vapor density at P - P_over_sat; the liquid is never evaluated below Psat
\* nor the vapor above it; with the exact distances the liquid is evaluated at
\* max(P, Psat) and the vapor at min(P, Psat), so that a phase that is present
\* (liquid at P >= Psat, vapor at P <= Psat) is evaluated at P itself.
C21_DensityPressures ==
    ComplEvaluated
        => /\ ret.dens_mass_P["Liq"] = call.P + ret.P_under_sat
           /\ ret.dens_mass_P["Vap"] = call.P - ret.P_over_sat
           /\ ret.dens_mass_P["Liq"] >= call.Psat
           /\ ret.dens_mass_P["Vap"] <= call.Psat
           /\ call.eps = 0
                => /\ ret.dens_mass_P["Liq"] = Max(call.P, call.Psat)
                   /\ ret.dens_mass_P["Vap"] = Min(call.P, call.Psat)
                   /\ call.P >= call.Psat => ret.dens_mass_P["Liq"] = call.P
                   /\ call.P <= call.Psat => ret.dens_mass_P["Vap"] = call.P

\* The liquid density of a vapor point is evaluated at Psat, above P
C21_Witness ==
    /\ ComplEvaluated /\ call.eps = 0
    /\ call.P < call.Psat
    /\ ret.dens_mass_P["Liq"] = call.Psat
    /\ ret.dens_mass_P["Vap"] = call.P

----------------------------------------------------------------------------
(* Specification of a flowsheet: state blocks over a part of the elements, a
   caller that activates eq_sat, and calls of _htpx *)

\* The index sets of the state blocks initialize is called on; the elements
\* outside belong to another state block of the same parameter block
BlockIndexSets == SUBSET Idx \ {{}}

\* The arguments of the calls of _htpx
FlowsheetHtpxT == {372, Tmax + 1}
FlowsheetHtpxKernel == [Pc |-> 22064000, mw |-> 18, Tsat |-> 373, Psat |-> 95,
                        hl |-> 415, hv |-> 2675]

\* h = _htpx(T, prop, P=P): builds its own model around prop and its parameters
EnthalpyFromT(T, P, x) ==
    /\ Running /\ ~ret.done
    /\ call' = [fn |-> "htpx", T |-> T, P |-> P, x |-> x, k |-> FlowsheetHtpxKernel]
    /\ ret' = htpx(T, P, x, FlowsheetHtpxKernel)
    /\ UNCHANGED <<param, blk, held, ncalls, last>>

NextFlowsheet ==
    \/ \E d \in BOOLEAN : Build(d)
    \/ \E S \in BlockIndexSets, a \in StateArgs, h \in BOOLEAN : InitializeOn(S, a, h)
    \/ \E k \in 1..MaxCalls : Release(k)
    \/ \E i \in Idx : ActivateEqSat(i)
    \/ \E T \in FlowsheetHtpxT : EnthalpyFromT(T, Arg(101325), NoArg)

SpecFlowsheet == Init /\ [][NextFlowsheet]_vars

----------------------------------------------------------------------------
(* Claims about the flowsheet *)

BothActive(b) == b.eq_sat = "active" /\ b.eq_complementarity = "active"

\* C22 (as claimed): in mode TPX eq_sat exists and is inactive after build, and
\* in every state reached by initialize, release_state and a caller activating
\* eq_sat, eq_sat and eq_complementarity are never both active on an element.
C22_NeverBothActive ==
    (Built /\ Mode = "TPX")
        => \A i \in Idx :
             /\ blk[i].eq_sat # "absent"
             /\ AfterBuild => blk[i].eq_sat = "inactive"
             /\ ~BothActive(blk[i])

\* C22 (amended): in mode TPX eq_sat exists and is inactive after build;
\* initialize and release_state leave the status of eq_sat and of
\* eq_complementarity as it was; activating eq_sat leaves eq_complementarity
\* as it was, so the two are both active from then on where
\* eq_complementarity was built (presentation LG, state not defined).
C22_ActivationKeepsComplementarity ==
    (Built /\ Mode = "TPX")
        => \A i \in Idx :
             /\ blk[i].eq_sat # "absent"
             /\ AfterBuild => blk[i].eq_sat = "inactive"
             /\ (AfterInitialize \/ AfterRelease)
                  => /\ blk[i].eq_sat = last.before[i].eq_sat
                     /\ blk[i].eq_complementarity = last.before[i].eq_complementarity
             /\ (last.op = "activate" /\ last.i = i)
                  => /\ blk[i].eq_sat = "active"
                     /\ blk[i].eq_complementarity = last.before[i].eq_complementarity
                     /\ BothActive(blk[i]) <=> blk[i].eq_complementarity = "active"
                     /\ blk[i].eq_complementarity = "active" => Pres = "LG"

\* An element with both constraints active, after a hold and its release
C22_Witness ==
    /\ Built /\ Mode = "TPX" /\ AfterRelease /\ last.err = "none"
    /\ \E i \in Idx : BothActive(blk[i]) /\ BothActive(last.before[i])

----------------------------------------------------------------------------
(* Claims about the suffixes of the phase equilibrium *)

\* The components c[i] of an element
QuantitiesOf(inst) == UNION {{Term(c.name, i) : i \in c.idx} : c \in inst.components}

\* The components c[i] with an entry in one of the two suffixes
LedgerKeys(inst) ==
    {Term(e.c, e.i) : e \in inst.scaling_factor} \cup {Term(e.c, e.i) : e \in inst.scaling_expression}

\* The number of entries of c[i] in the two suffixes
LedgerCount(inst, q) ==
    Cardinality({e \in inst.scaling_factor : Term(e.c, e.i) = q})
    + Cardinality({e \in inst.scaling_expression : Term(e.c, e.i) = q})

\* The components _tpx_phase_eq creates
ResolverQuantities(inst) ==
    {q \in QuantitiesOf(inst) :
        q.c \in {"P_under_sat", "P_over_sat", "dens_mass_phase", "dens_phase_red",
                 "eq_complementarity", "eq_sat"}}

\* C23: in mode TPX every component created by _tpx_phase_eq (P_under_sat,
\* P_over_sat, the mass density and the reduced density of both phases,
\* eq_complementarity when it is built, eq_sat) has exactly one entry in the
\* scaling suffixes after build, and a component that exists in both modes has
\* an entry in TPX exactly when it has one in PH.
C23_ResolverLedger ==
    (BuildEvaluated /\ Mode = "TPX")
        => LET inst == ret.inst
               ph == build(ParameterBlockBuild("PH", Pres, param.available),
                           call.defined_state)
               common == QuantitiesOf(inst) \cap QuantitiesOf(ph)
           IN /\ \A q \in ResolverQuantities(inst) : LedgerCount(inst, q) = 1
              /\ LedgerKeys(inst) \cap common = LedgerKeys(ph) \cap common

----------------------------------------------------------------------------
(* Claims about the balance terms *)

\* C24: for material_flow_terms, enthalpy_flow_terms and energy_density_terms
\* and every phase p of the public phase list, the scaling expression recorded
\* for the term is the reciprocal of the term: wherever the two have a value,
\* their product is 1.
C24_ScalingIsReciprocal ==
    BuildEvaluated
        => \A t \in ret.at.balance_terms :
             \E e \in ret.at.scaling_expression :
                /\ e.c = t.c /\ e.i = t.i
                /\ (Defined(e.v) /\ Defined(t.v)) => RMul(e.v, t.v) = RInt(1)

----------------------------------------------------------------------------
(* Claims about the extensive and the intensive set *)

\* C25 (as claimed): for every configuration the extensive and the intensive
\* set of an element are disjoint, the extensive set is {flow_mol}, and the
\* union of the two is the set of variables of define_state_vars.
C25_TagsAreInterface ==
    BuildEvaluated
        => LET ext == extensive_state_vars(ret.inst)
               int == intensive_state_vars(ret.inst)
           IN /\ ext \cap int = {}
              /\ ext = {"flow_mol"}
              /\ ext \cup int = define_state_vars(ret.inst)

\* C25 (amended): for every configuration the extensive and the intensive set
\* of an element are disjoint, the extensive set is {flow_mol}, and every tagged
\* component is a primary variable; the union of the two sets is the set of
\* variables of define_state_vars except in TPX mode under L or G, where the
\* intensive set also holds vapor_frac, which define_state_vars leaves out.
C25_TagsArePrimaryVariables ==
    BuildEvaluated
        => LET ext == extensive_state_vars(ret.inst)
               int == intensive_state_vars(ret.inst)
           IN /\ ext \cap int = {}
              /\ ext = {"flow_mol"}
              /\ \A n \in ext \cup int : ret.inst.elem.comp[n].ctype = "Var"
              /\ IF Mode = "TPX" /\ Pres \in {"L", "G"}
                 THEN /\ "vapor_frac" \notin define_state_vars(ret.inst)
                      /\ ext \cup int = define_state_vars(ret.inst) \cup {"vapor_frac"}
                 ELSE ext \cup int = define_state_vars(ret.inst)

\* An element whose intensive set holds a variable outside define_state_vars
C25_Witness ==
    /\ BuildEvaluated /\ Mode = "TPX" /\ Pres = "L"
    /\ "vapor_frac" \in intensive_state_vars(ret.inst)
    /\ "vapor_frac" \notin define_state_vars(ret.inst)
    /\ ret.inst.elem.comp.vapor_frac.fixed

----------------------------------------------------------------------------
(* Claims about the parameter block *)

\* C26: once the parameter block is built, no step (build of the elements,
\* initialize, release_state, activation of eq_sat, _htpx) changes any of its
\* fields: the default values, the phase lists, state_vars, the smoothing
\* parameters and available keep the values they had after its build.
C26_ParametersReadOnly == [][param' = param]_vars

\* The parameter block as it was built, after elements were built, two holds
\* were made and released and _htpx was called
C26_Witness ==
    /\ Built /\ AfterRelease /\ ncalls = 2 /\ held = <<>> /\ ret.done
    /\ param = ParameterBlockBuild(Mode, Pres, TRUE)

----------------------------------------------------------------------------
(* Claims about nested holds *)

\* The outer of two nested holds with hold_state=True was released, with the
\* flags it returned, right after the inner one
OuterReleased ==
    /\ AfterRelease /\ last.nested
    /\ last.hold_state /\ last.flags = last.returned

\* C27: when two nested calls of initialize with hold_state=True are released
\* in reverse order (the flags of the inner call first, then the flags of the
\* outer call), every variable of every element has the fixed status it had
\* before the outer call, whatever that status was, in every configuration.
C27_NestedHoldsRestore ==
    OuterReleased
        => /\ last.err = "none"
           /\ \A i \in Idx, n \in Names : blk[i].comp[n].fixed = last.pre[i][n]

\* A variable that was unfixed before the outer hold, fixed between the two
\* releases and unfixed again after them, next to one that was fixed before
C27_Witness ==
    /\ OuterReleased
    /\ \E i \in Idx : \E n \in SeqRange(ElemNames(blk[i])) :
          /\ ~last.pre[i][n] /\ last.before[i].comp[n].fixed /\ ~blk[i].comp[n].fixed
    /\ \E i \in Idx : \E n \in SeqRange(ElemNames(blk[i])) :
          last.pre[i][n] /\ blk[i].comp[n].fixed

----------------------------------------------------------------------------
(* Claims about vapor_frac under a single phase *)

\* C28: in TPX mode under L or G, after build and any sequence of calls of
\* initialize (with any state_args, vapor_frac among its keys or not, and
\* either hold_state) and of release_state with flags those calls returned,
\* vapor_frac of every element is fixed and has the value 0 (L) or 1 (G).
C28_SinglePhaseStaysFixed ==
    (Built /\ Mode = "TPX" /\ Pres \in {"L", "G"})
        => \A i \in Idx :
             /\ blk[i].comp.vapor_frac.fixed
             /\ blk[i].comp.vapor_frac.value = (IF Pres = "L" THEN 0 ELSE VfDen)

\* After a hold, its release and a second call with vapor_frac in state_args
C28_Witness ==
    /\ Built /\ Mode = "TPX" /\ Pres = "G"
    /\ AfterInitialize /\ ncalls = 2 /\ Len(held) = 1
    /\ last.state_args.given /\ "vapor_frac" \in DOMAIN last.state_args.d
    /\ last.state_args.d["vapor_frac"] # VfDen
    /\ \A i \in Idx : blk[i].comp.vapor_frac.fixed /\ blk[i].comp.vapor_frac.value = VfDen

----------------------------------------------------------------------------
(* Claims about the material flow terms *)

MaterialFlowTerms == {t \in ret.at.balance_terms : t.c = "material_flow_terms"}

\* The sum of the values of a set of terms
RECURSIVE RSumOf(_)
RSumOf(T) ==
    IF T = {} THEN RInt(0)
    ELSE LET t == CHOOSE x \in T : TRUE IN RAdd(t.v, RSumOf(T \ {t}))

\* vapor_frac has the value of the presentation: 0 under L, 1 under G
AtModeVaporFrac ==
    /\ Pres = "L" => ret.at.vapor_frac = RInt(0)
    /\ Pres = "G" => ret.at.vapor_frac = RInt(1)

\* C29: in every configuration the material flow terms of the phases of the
\* public phase list add up to flow_mol: the term is flow_mol under MIX,
\* flow_mol*vapor_frac and flow_mol*(1 - vapor_frac) under LG, and flow_mol
\* times the phase fraction of the one phase under L and G, which is 1 at the
\* vapor_frac of the presentation.
C29_MaterialFlowSum ==
    (BuildEvaluated /\ AtModeVaporFrac)
        => LET flow == RInt(call.pt.flow_mol)
               vf == ret.at.vapor_frac
           IN /\ {t.i : t \in MaterialFlowTerms} = param.phase_list
              /\ RSumOf(MaterialFlowTerms) = flow
              /\ \A t \in MaterialFlowTerms :
                    t.v = (IF t.i = "Mix" THEN flow
                           ELSE IF t.i = "Vap" THEN RMul(flow, vf)
                           ELSE RMul(flow, RSub(RInt(1), vf)))

\* Two phases that share a flow of 3 mol/s
C29_Witness ==
    /\ BuildEvaluated /\ Pres = "LG" /\ Mode = "TPX"
    /\ call.pt.flow_mol = 3 /\ call.pt.vf = 3
    /\ Cardinality(MaterialFlowTerms) = 2
    /\ \E t \in MaterialFlowTerms : t.i = "Vap" /\ t.v = Rat(9, VfDen)
    /\ RSumOf(MaterialFlowTerms) = RInt(3)

----------------------------------------------------------------------------
(* Claims about what initialize and release_state leave alone *)

\* The keys of a flags dictionary
FlagKeys(flags) == {flags[k].key : k \in 1..Len(flags)}

\* C30: initialize with hold_state=False changes the fixed status of no
\* variable, and changes the value of a variable only if it is an unfixed held
\* variable of the state block with an entry in state_args, to that entry;
\* initialize leaves every element outside the state block as it was, and
\* release_state leaves every element that is not a key of its flags as it
\* was and changes no value.
C30_OnlyOwnElements ==
    /\ AfterInitialize
         => /\ \A i \in Idx \ last.self : blk[i] = last.before[i]
            /\ ~last.hold_state
                 => /\ FixedOf(blk) = FixedOf(last.before)
                    /\ \A i \in Idx, n \in Names :
                          blk[i].comp[n].value # last.before[i].comp[n].value
                            => /\ i \in last.self
                               /\ n \in SeqRange(HoldNames(Mode, Pres))
                               /\ ~last.before[i].comp[n].fixed
                               /\ last.state_args.given
                               /\ n \in DOMAIN last.state_args.d
                               /\ blk[i].comp[n].value = last.state_args.d[n]
    /\ AfterRelease
         => /\ \A i \in Idx \ FlagKeys(last.flags) : blk[i] = last.before[i]
            /\ \A i \in Idx, n \in Names :
                  blk[i].comp[n].value = last.before[i].comp[n].value

\* A call with hold_state=False on the state block of element 1 assigned the
\* flow of state_args to element 1 and left element 2, outside the block, with
\* the flow it had
C30_Witness ==
    /\ Built /\ AfterInitialize /\ ~last.hold_state
    /\ last.self = {1}
    /\ last.state_args.given
    /\ blk[1].comp.flow_mol.value = last.state_args.d["flow_mol"]
    /\ blk[1].comp.flow_mol.value # last.before[1].comp.flow_mol.value
    /\ ~blk[2].comp.flow_mol.fixed
    /\ blk[2].comp.flow_mol.value = last.before[2].comp.flow_mol.value
    /\ blk[2].comp.flow_mol.value # blk[1].comp.flow_mol.value

====
